---- MODULE Spec2Model ----
(***************************************************************************)
(* Model of the planner agent repository: the file-based approval store    *)
(* (planner_agent/approval_store.py), the approval CLI                     *)
(* (planner_agent/approve_action.py), the orchestration of                 *)
(* PlannerAgent.execute_goal and the tool calls of MCPTool                 *)
(* (planner_agent/planner_agent.py), the handlers of the query and         *)
(* evaluation servers (mcp_*_server/lambda_function.py) and the hybrid     *)
(* example (hybrid_implementation_example.py).                             *)
(*                                                                         *)
(* Four specifications share the variables:                                *)
(*   Spec     - store and CLI operations executed one after another;       *)
(*   SpecRace - CLI invocations, readers and a caller of                   *)
(*              mark_as_processed, interleaved at the granularity of       *)
(*              their file reads, truncating opens and writes;             *)
(*   SpecTool - one tool call: MCPTool.__call__ and the lambda_handler of  *)
(*              the query and evaluation servers;                          *)
(*   SpecRun  - one orchestrator run, stepped at its tool calls: either    *)
(*              PlannerAgent.execute_goal or the hybrid example's agent.   *)
(***************************************************************************)
EXTENDS Integers, Sequences, FiniteSets, TLC

VARIABLES
    store,      \* approval_requests/: request id -> content of <id>.json
    created,    \* ids returned by create_request so far (history)
    clock,      \* logical time; datetime.now() of a call is the new clock
    last,       \* the last store/CLI call: name, id, success, returned records
    pc,         \* SpecRace: position of each process
    loc,        \* SpecRace: request_data held by each process
    res,        \* SpecRace: return value of each process
    seen,       \* SpecRace: what each reader's json.load was given
    run,        \* SpecRun: the locals of one PlannerAgent.execute_goal call
    hyb,        \* SpecRun: the state of one AutonomousAgent.process_goal call
    mcp         \* SpecTool: one MCPTool call, from its request to its result

storeVars == <<store, created, clock, last>>
raceVars  == <<pc, loc, res, seen>>
vars == <<store, created, clock, last, pc, loc, res, seen, run, hyb, mcp>>

----------------------------------------------------------------------------
(* Bounds *)

MaxIds   == 2      \* request ids the id generator can produce
MaxClock == 4      \* number of mutating calls in one behaviour
MaxConvs == 3      \* conversations a query_conversations answer can carry

Ids == 1..MaxIds

----------------------------------------------------------------------------
(* Records of the approval store *)

NoTime  == 0       \* key absent (created_at / updated_at / processed_at)
NoNotes == ""      \* notes=None, or key absent

\* A request dictionary.  Every key the code reads or writes is a field; an
\* absent key is NoTime / NoNotes / "" / FALSE (the .get() defaults).
Plain ==
    [id |-> 0, status |-> "", action |-> "submit_prompt_update",
     prompt_text |-> "default", reason |-> "manual",
     processed |-> FALSE, notes |-> NoNotes,
     created_at |-> NoTime, updated_at |-> NoTime, processed_at |-> NoTime]

\* A caller's dictionary that already carries id, status and processed keys.
Preset ==
    [Plain EXCEPT !.id = MaxIds, !.status = "approved", !.processed = TRUE,
                  !.prompt_text = "custom", !.reason = "evaluation"]

Payloads == {Plain, Preset}

\* The content of a file that open(..., "w") has truncated and that has not
\* been written yet: json.load of it raises.
EMPTY == [Plain EXCEPT !.action = "", !.prompt_text = "", !.reason = ""]

Statuses  == {"approved", "rejected"}
NotesArgs == {NoNotes, "lgtm"}

----------------------------------------------------------------------------
(* ApprovalStore: the functions of approval_store.py on a directory `st` *)

Exists(st, rid) == rid \in DOMAIN st

\* create_request, lines 29-31: the three keys the store sets.
NewRecord(request_data, rid, t) ==
    [request_data EXCEPT !.id = rid, !.status = "pending", !.created_at = t]

\* create_request, lines 34-35: open(<id>.json, "w") and json.dump.
create_request(st, request_data, rid, t) ==
    [i \in DOMAIN st \cup {rid} |->
        IF i = rid THEN NewRecord(request_data, rid, t) ELSE st[i]]

\* get_request: the records returned (none for FileNotFoundError -> None).
get_request(st, rid) ==
    IF Exists(st, rid) THEN {st[rid]} ELSE {}

\* Mutant of UpdatedRecord: the record is rebuilt from the decision and loses
\* its id key.
UpdatedRecord_LosesId(request_data, status, notes, t) ==
    [request_data EXCEPT !.id = 0, !.status = status, !.updated_at = t,
                         !.notes = IF notes # NoNotes THEN notes ELSE @]

\* update_request, lines 73-77.
UpdatedRecord(request_data, status, notes, t) ==
    [request_data EXCEPT !.status = status, !.updated_at = t,
                         !.notes = IF notes # NoNotes THEN notes ELSE @]

\* Mutant of update_request: a missing file is created instead of being
\* reported.
update_request_Upsert(st, rid, status, notes, t) ==
    [i \in DOMAIN st \cup {rid} |->
        IF i # rid THEN st[i]
        ELSE UpdatedRecord(IF Exists(st, rid) THEN st[rid] ELSE Plain,
                           status, notes, t)]

\* update_request on the directory; the return value is in update_request_ok.
update_request(st, rid, status, notes, t) ==
    IF Exists(st, rid)
    THEN [st EXCEPT ![rid] = UpdatedRecord(st[rid], status, notes, t)]
    ELSE st

update_request_ok(st, rid) == Exists(st, rid)

\* get_pending_requests: the list returned, as a set (os.listdir order).
get_pending_requests(st) ==
    {st[i] : i \in {j \in DOMAIN st : st[j].status = "pending"}}

\* Mutant of get_approved_requests: the processed flag is not looked at.
get_approved_requests_AnyApproved(st) ==
    {st[i] : i \in {j \in DOMAIN st : st[j].status = "approved"}}

\* get_approved_requests.
get_approved_requests(st) ==
    {st[i] : i \in {j \in DOMAIN st :
                       st[j].status = "approved" /\ ~st[j].processed}}

\* Mutant of ProcessedRecord: the record is rebuilt from its id and action
\* only, so that payload, status and times are lost.
ProcessedRecord_Rebuilt(request_data, t) ==
    [Plain EXCEPT !.id = request_data.id, !.action = request_data.action,
                  !.processed = TRUE, !.processed_at = t]

\* mark_as_processed, lines 141-142.
ProcessedRecord(request_data, t) ==
    [request_data EXCEPT !.processed = TRUE, !.processed_at = t]

mark_as_processed(st, rid, t) ==
    IF Exists(st, rid)
    THEN [st EXCEPT ![rid] = ProcessedRecord(st[rid], t)]
    ELSE st

mark_as_processed_ok(st, rid) == Exists(st, rid)

----------------------------------------------------------------------------
(* approve_action.py: approve_request / reject_request, lines 42-50 *)

\* Mutant of CliAccepts: the status of the request is not looked at.
CliAccepts_AnyStatus(st, rid) ==
    get_request(st, rid) # {}

\* The CLI's own check before it calls update_request.
CliAccepts(st, rid) ==
    /\ get_request(st, rid) # {}
    /\ st[rid].status = "pending"

CliDecide(st, rid, status, notes, t) ==
    IF CliAccepts(st, rid) THEN update_request(st, rid, status, notes, t)
    ELSE st

CliDecide_ok(st, rid) ==
    CliAccepts(st, rid) /\ update_request_ok(st, rid)

----------------------------------------------------------------------------
(* Spec: store and CLI calls, one at a time *)

Call(op, rid, ok, out, t) ==
    [op |-> op, id |-> rid, ok |-> ok, out |-> out, at |-> t]

Procs == {"approve", "reject", "reader", "lister", "marker"}

\* The agent before execute_goal is called; custom_prompt is the constructor
\* argument.
\* avg_score before line 283 has bound it.
NoAverage == [num |-> 0, den |-> 0]

RunIdle(custom_prompt) ==
    [pc |-> "idle", custom_prompt |-> custom_prompt, goal |-> <<>>,
     override |-> "", limit |-> 0, n |-> 0, i |-> 0, scores |-> <<>>,
     avg_score |-> NoAverage, evaluations |-> <<>>, results |-> <<>>,
     calls |-> <<>>, ret |-> "none"]

\* The state of the hybrid example's agent and of the workflow it invokes
\* (hybrid_implementation_example.py): the params of _classify_intent and the
\* keys of ConversationState.  A float is num / den; "" is an absent key.
HybIdle ==
    [pc |-> "idle", goal |-> <<>>, intent |-> "",
     conversation_count |-> 0, score_threshold |-> [num |-> 0, den |-> 1],
     update_required |-> FALSE, conversations |-> 0, scores |-> <<>>,
     average_score |-> [num |-> 0, den |-> 1], approval_required |-> FALSE,
     approval_id |-> FALSE, approval_status |-> "", pr_url |-> FALSE,
     status |-> ""]

\* The agent that does not run in a behaviour.
HybOff == [HybIdle EXCEPT !.pc = "off"]
RunOff == [RunIdle("") EXCEPT !.pc = "off"]

\* One call of a tool through MCPTool.__call__ (planner_agent.py) to the
\* lambda_handler of its server: the event the handler is given, the
\* response it returns, what urlopen reads, and the result of the call.
NoEvent    == [shape |-> "", limit_kind |-> "", limit |-> 0,
               question |-> FALSE, answer |-> FALSE, bedrock |-> "", score |-> 0]
NoResponse == [statusCode |-> 0, success |-> "", error |-> FALSE,
               count |-> 0, conversations |-> <<>>, score |-> 0,
               evaluated |-> FALSE]
NoHttp     == [raised |-> FALSE, body |-> "", val |-> "", success |-> "",
               error |-> FALSE]
NoResult   == [type |-> "", success |-> "", error |-> FALSE]

McpIdle ==
    [pc |-> "idle", tool |-> "", event |-> NoEvent, response |-> NoResponse,
     http |-> NoHttp, result |-> NoResult]

McpOff == [McpIdle EXCEPT !.pc = "off"]

RaceIdle ==
    /\ pc   = [p \in Procs |-> "off"]
    /\ loc  = [p \in Procs |-> EMPTY]
    /\ res  = [p \in Procs |-> "none"]
    /\ seen = [p \in {"reader", "lister"} |-> {}]

Init ==
    /\ store   = <<>>
    /\ created = {}
    /\ clock   = 0
    /\ last    = Call("init", 0, TRUE, {}, 0)
    /\ RaceIdle
    /\ run     = RunIdle("")
    /\ hyb     = HybOff
    /\ mcp     = McpOff

Tick == clock < MaxClock /\ clock' = clock + 1

CreateRequest ==
    \E request_data \in Payloads, rid \in Ids :
        /\ Tick
        /\ store'   = create_request(store, request_data, rid, clock')
        /\ created' = created \cup {rid}
        /\ last'    = Call("create_request", rid, TRUE, {}, clock')
        /\ UNCHANGED <<raceVars, run, hyb, mcp>>

GetRequest ==
    \E rid \in Ids :
        /\ last' = Call("get_request", rid, get_request(store, rid) # {},
                        get_request(store, rid), clock)
        /\ UNCHANGED <<store, created, clock>>
        /\ UNCHANGED <<raceVars, run, hyb, mcp>>

UpdateRequest ==
    \E rid \in Ids, status \in Statuses, notes \in NotesArgs :
        /\ Tick
        /\ store' = update_request(store, rid, status, notes, clock')
        /\ last'  = Call("update_request", rid,
                         update_request_ok(store, rid), {}, clock')
        /\ UNCHANGED created
        /\ UNCHANGED <<raceVars, run, hyb, mcp>>

GetPendingRequests ==
    /\ last' = Call("get_pending_requests", 0, TRUE,
                    get_pending_requests(store), clock)
    /\ UNCHANGED <<store, created, clock>>
    /\ UNCHANGED <<raceVars, run, hyb, mcp>>

GetApprovedRequests ==
    /\ last' = Call("get_approved_requests", 0, TRUE,
                    get_approved_requests(store), clock)
    /\ UNCHANGED <<store, created, clock>>
    /\ UNCHANGED <<raceVars, run, hyb, mcp>>

MarkAsProcessed ==
    \E rid \in Ids :
        /\ Tick
        /\ store' = mark_as_processed(store, rid, clock')
        /\ last'  = Call("mark_as_processed", rid,
                         mark_as_processed_ok(store, rid), {}, clock')
        /\ UNCHANGED created
        /\ UNCHANGED <<raceVars, run, hyb, mcp>>

ApproveRequest ==
    \E rid \in Ids, notes \in NotesArgs :
        /\ Tick
        /\ store' = CliDecide(store, rid, "approved", notes, clock')
        /\ last'  = Call("approve_request", rid, CliDecide_ok(store, rid),
                         {}, clock')
        /\ UNCHANGED created
        /\ UNCHANGED <<raceVars, run, hyb, mcp>>

RejectRequest ==
    \E rid \in Ids, notes \in NotesArgs :
        /\ Tick
        /\ store' = CliDecide(store, rid, "rejected", notes, clock')
        /\ last'  = Call("reject_request", rid, CliDecide_ok(store, rid),
                         {}, clock')
        /\ UNCHANGED created
        /\ UNCHANGED <<raceVars, run, hyb, mcp>>

Next ==
    \/ CreateRequest
    \/ GetRequest
    \/ UpdateRequest
    \/ GetPendingRequests
    \/ GetApprovedRequests
    \/ MarkAsProcessed
    \/ ApproveRequest
    \/ RejectRequest

Spec == Init /\ [][Next]_vars

----------------------------------------------------------------------------
(* SpecRace: the CLI's approve and reject, and two readers, on one pending *)
(* request, interleaved at their file operations                           *)

\* The request the processes of SpecRace work on.
RaceId == CHOOSE i \in Ids : \A j \in Ids : i <= j

Clis == {"approve", "reject"}

Decision(p) == IF p = "approve" THEN "approved" ELSE "rejected"

InitRace ==
    /\ store   = create_request(<<>>, Plain, RaceId, 1)
    /\ created = {RaceId}
    /\ clock   = 1
    /\ last    = Call("create_request", RaceId, TRUE, {}, 1)
    /\ pc   = [p \in Procs |-> "start"]
    /\ loc  = [p \in Procs |-> EMPTY]
    /\ res  = [p \in Procs |-> "none"]
    /\ seen = [p \in {"reader", "lister"} |-> {}]
    /\ run  = RunIdle("")
    /\ hyb  = HybOff
    /\ mcp  = McpOff

Goto(p, label)  == pc' = [pc EXCEPT ![p] = label]
Return(p, value) == res' = [res EXCEPT ![p] = value] /\ Goto(p, "done")

\* approve_request / reject_request, lines 42-50 (68-76): get_request and
\* the pending check.  json.load of a truncated file raises.
CliGet(p) ==
    /\ pc[p] = "start"
    /\ IF store[RaceId] = EMPTY THEN Return(p, "raised")
       ELSE IF ~CliAccepts(store, RaceId) THEN Return(p, "false")
       ELSE Goto(p, "update") /\ UNCHANGED res
    /\ UNCHANGED <<store, created, clock, last, loc, seen, run, hyb, mcp>>

\* update_request, lines 70-77: read the file again and change the copy.
UpdRead(p) ==
    /\ pc[p] = "update"
    /\ IF store[RaceId] = EMPTY
       THEN Return(p, "raised") /\ UNCHANGED <<loc, clock>>
       ELSE /\ clock' = clock + 1
            /\ loc' = [loc EXCEPT ![p] =
                         UpdatedRecord(store[RaceId], Decision(p), NoNotes,
                                       clock')]
            /\ Goto(p, "open")
            /\ UNCHANGED res
    /\ UNCHANGED <<store, created, last, seen, run, hyb, mcp>>

\* update_request, line 79: open(request_file, "w") truncates the file.
UpdOpen(p) ==
    /\ pc[p] = "open"
    /\ store' = [store EXCEPT ![RaceId] = EMPTY]
    /\ Goto(p, "dump")
    /\ UNCHANGED <<created, clock, last, loc, res, seen, run, hyb, mcp>>

\* update_request, lines 80-82: json.dump, close, return True; back in the
\* CLI the result is printed and returned.
UpdDump(p) ==
    /\ pc[p] = "dump"
    /\ store' = [store EXCEPT ![RaceId] = loc[p]]
    /\ Return(p, "true")
    /\ UNCHANGED <<created, clock, last, loc, seen, run, hyb, mcp>>

\* get_request, lines 49-53, by a concurrent reader.
ReadGet ==
    /\ pc["reader"] = "start"
    /\ seen' = [seen EXCEPT !["reader"] = {store[RaceId]}]
    /\ Return("reader", IF store[RaceId] = EMPTY THEN "raised" ELSE "record")
    /\ UNCHANGED <<store, created, clock, last, loc, run, hyb, mcp>>

\* get_pending_requests, lines 95-103, by a concurrent reader: json.load of
\* every file of the directory.
ReadPending ==
    /\ pc["lister"] = "start"
    /\ seen' = [seen EXCEPT !["lister"] = {store[i] : i \in DOMAIN store}]
    /\ Return("lister", IF \E i \in DOMAIN store : store[i] = EMPTY
                        THEN "raised" ELSE "list")
    /\ UNCHANGED <<store, created, clock, last, loc, run, hyb, mcp>>

\* get_approved_requests, lines 105-123, by the caller of mark_as_processed:
\* the request is taken up once it is listed as approved and not processed.
\* json.load of a truncated file raises.
MarkPick ==
    /\ pc["marker"] = "start"
    /\ \/ store[RaceId] = EMPTY /\ Return("marker", "raised")
       \/ /\ store[RaceId] \in get_approved_requests(store)
          /\ Goto("marker", "mark")
          /\ UNCHANGED res
    /\ UNCHANGED <<store, created, clock, last, loc, seen, run, hyb, mcp>>

\* mark_as_processed, lines 138-142: read the file and change the copy.
MarkRead ==
    /\ pc["marker"] = "mark"
    /\ IF store[RaceId] = EMPTY
       THEN Return("marker", "raised") /\ UNCHANGED <<loc, clock>>
       ELSE /\ clock' = clock + 1
            /\ loc' = [loc EXCEPT !["marker"] =
                         ProcessedRecord(store[RaceId], clock')]
            /\ Goto("marker", "open")
            /\ UNCHANGED res
    /\ UNCHANGED <<store, created, last, seen, run, hyb, mcp>>

\* mark_as_processed, line 144: open(request_file, "w") truncates the file.
MarkOpen ==
    /\ pc["marker"] = "open"
    /\ store' = [store EXCEPT ![RaceId] = EMPTY]
    /\ Goto("marker", "dump")
    /\ UNCHANGED <<created, clock, last, loc, res, seen, run, hyb, mcp>>

\* mark_as_processed, lines 145-147: json.dump, close, return True.
MarkDump ==
    /\ pc["marker"] = "dump"
    /\ store' = [store EXCEPT ![RaceId] = loc["marker"]]
    /\ Return("marker", "true")
    /\ UNCHANGED <<created, clock, last, loc, seen, run, hyb, mcp>>

NextRace ==
    \/ \E p \in Clis : CliGet(p)
    \/ \E p \in Clis : UpdRead(p)
    \/ \E p \in Clis : UpdOpen(p)
    \/ \E p \in Clis : UpdDump(p)
    \/ ReadGet
    \/ ReadPending
    \/ MarkPick
    \/ MarkRead
    \/ MarkOpen
    \/ MarkDump

SpecRace == InitRace /\ [][NextRace]_vars

\* C5: when an approve and a reject of the same pending request run
\* concurrently, exactly one returns success, the other fails (returns False
\* or raises), and the stored status is the one of the call that succeeded.
C5_ExactlyOneDecision ==
    (pc["approve"] = "done" /\ pc["reject"] = "done")
    => \E w \in Clis :
          /\ res[w] = "true"
          /\ \A p \in Clis \ {w} : res[p] \in {"false", "raised"}
          /\ store[RaceId].status = Decision(w)

\* C6: a reader running concurrently with a writer of the same record is
\* never given a half-written file: what json.load reads is a complete
\* record.
C6_NoTornRead ==
    \A p \in {"reader", "lister"} : \A r \in seen[p] : r # EMPTY

----------------------------------------------------------------------------
(* SpecTool: one tool call, from the event of the lambda_handler to the    *)
(* result MCPTool.__call__ returns                                         *)

Tools == {"query_conversations", "evaluate_response"}

\* How the event carries the arguments: none at all, as top-level keys, or
\* under 'body' as a dictionary, as JSON text, as text that is not JSON, as
\* a list, or as null.
EventShapes ==
    {"empty", "flat", "body_dict", "body_str", "body_garbage", "body_list",
     "body_null"}

\* The events of the query server: limit is absent, a string (or a float,
\* or null), an integer, or a boolean, which in Python is the integer 0 or 1.
QueryEvents ==
    {[NoEvent EXCEPT !.shape = shape, !.limit_kind = kind]
        : shape \in EventShapes, kind \in {"absent", "text"}}
    \cup {[NoEvent EXCEPT !.shape = shape, !.limit_kind = "int", !.limit = n]
             : shape \in EventShapes, n \in 0..11}
    \cup {[NoEvent EXCEPT !.shape = shape, !.limit_kind = "bool", !.limit = n]
             : shape \in EventShapes, n \in 0..1}

\* The events of the evaluation server, with what Bedrock does when asked:
\* it answers JSON with a score, answers text without JSON, or raises.
EvaluationEvents ==
    {[NoEvent EXCEPT !.shape = shape, !.question = q, !.answer = a,
                     !.bedrock = "json", !.score = n]
        : shape \in EventShapes, q \in BOOLEAN, a \in BOOLEAN, n \in 0..6}
    \cup {[NoEvent EXCEPT !.shape = shape, !.question = q, !.answer = a,
                          !.bedrock = b]
             : shape \in EventShapes, q \in BOOLEAN, a \in BOOLEAN,
               b \in {"no_json", "raises"}}

\* lambda_handler, lines 100-113 (query) and 124-138 (evaluation): "raises"
\* when json.loads or body.get raises, "empty" when body stays {}.
ParsedBody(event, key_present) ==
    CASE event.shape \in {"body_garbage", "body_list", "body_null"} -> "raises"
      [] event.shape = "empty" -> "empty"
      [] event.shape = "flat" -> IF key_present THEN "given" ELSE "empty"
      [] OTHER -> "given"

Response(statusCode, success, error, count, score) ==
    [statusCode |-> statusCode, success |-> success, error |-> error,
     count |-> count, conversations |-> <<>>, score |-> score,
     evaluated |-> FALSE]

\* mcp_query_server, lines 11-72: the ten stored conversations, oldest first.
CONVERSATIONS == [k \in 1..10 |-> k]

\* mcp_query_server query_conversations, lines 75-86: CONVERSATIONS[-limit:].
query_conversations(limit) ==
    IF limit = 0 THEN CONVERSATIONS
    ELSE SubSeq(CONVERSATIONS,
                IF limit >= Len(CONVERSATIONS) THEN 1
                ELSE Len(CONVERSATIONS) - limit + 1,
                Len(CONVERSATIONS))

\* mcp_query_server lambda_handler, lines 89-155.
QueryHandler(event) ==
    LET body == ParsedBody(event, event.limit_kind # "absent")
        kind == IF body = "empty" THEN "absent" ELSE event.limit_kind
        limit == IF kind = "absent" THEN 5 ELSE event.limit
    IN  IF body = "raises" THEN Response(500, "false", TRUE, 0, 0)
        ELSE IF kind = "text" \/ limit < 1 \/ limit > 10
             THEN Response(400, "absent", TRUE, 0, 0)
             ELSE LET conversations == query_conversations(limit)
                  IN  [Response(200, "true", FALSE, Len(conversations), 0)
                          EXCEPT !.conversations = conversations]

EvaluationScore_Unvalidated(event) ==
    IF event.bedrock = "json" THEN event.score ELSE 3

\* mcp_evaluation_server evaluate_response, lines 66-111: the score of the
\* answer when it is a number from 1 to 5, and 3 in every other case, the
\* failure of the Bedrock call included.
EvaluationScore(event) ==
    IF event.bedrock = "json" /\ event.score >= 1 /\ event.score <= 5
    THEN event.score
    ELSE 3

\* mcp_evaluation_server lambda_handler, lines 113-182.  evaluated records
\* that evaluate_response, and with it the Bedrock model, was called.
EvaluationHandler(event) ==
    LET body == ParsedBody(event, event.question)
        question == body = "given" /\ event.question
        answer   == body = "given" /\ event.answer
    IN  IF body = "raises" THEN Response(500, "false", TRUE, 0, 0)
        ELSE IF ~question \/ ~answer
             THEN Response(400, "absent", TRUE, 0, 0)
             ELSE [Response(200, "true", FALSE, 0, EvaluationScore(event))
                     EXCEPT !.evaluated = TRUE]

\* What urlopen gives MCPTool.__call__: it raises (no connection, timeout,
\* an HTTP status of 400 and above), or the text read is a JSON value val,
\* val being "garbage" for text that is not JSON.  body tells whether a
\* dictionary read has the key 'body' and whether that is text ("str",
\* holding the JSON of val) or a value ("raw"); success and error are the
\* keys of the innermost dictionary.
Http(raised, body, val, success, error) ==
    [raised |-> raised, body |-> body, val |-> val, success |-> success,
     error |-> error]

\* The server behind a proxy: the statusCode is the HTTP status and the body
\* is the text sent.
Proxied(response) ==
    Http(response.statusCode >= 400, "absent", "dict", response.success,
         response.error)

\* The dictionary the handler returns sent as it is, with HTTP status 200.
Enveloped(response) ==
    Http(FALSE, "str", "dict", response.success, response.error)

\* Answers that do not come from the handlers.
ForeignAnswers ==
    {Http(TRUE, "", "", "", FALSE)}
    \cup {Http(FALSE, "absent", val, "absent", FALSE)
             : val \in {"garbage", "null", "number", "string", "list", "dict"}}
    \cup {Http(FALSE, "str", val, "absent", FALSE)
             : val \in {"garbage", "null", "number", "string", "list", "dict"}}
    \cup {Http(FALSE, "raw", val, "absent", FALSE)
             : val \in {"null", "number", "list", "dict"}}

Result(type, success, error) ==
    [type |-> type, success |-> success, error |-> error]

\* MCPTool.__call__, lines 37-71.  Whatever raises inside the try block
\* gives the failure dictionary: urlopen, json.loads of text that is not
\* JSON, and `'body' in result` for a number or null.  Everything else read
\* is returned as it is, the value under 'body' in its place when there is
\* one.
McpCall(http) ==
    LET failure == Result("dict", "false", TRUE)
        value   == Result(http.val, http.success, http.error)
    IN  IF http.raised \/ http.val = "garbage" THEN failure
        ELSE IF http.body = "absent" /\ http.val \in {"null", "number"}
             THEN failure
             ELSE value

InitTool ==
    /\ store   = <<>>
    /\ created = {}
    /\ clock   = 0
    /\ last    = Call("init", 0, TRUE, {}, 0)
    /\ RaceIdle
    /\ run     = RunOff
    /\ hyb     = HybOff
    /\ mcp     = McpIdle

\* MCPTool.__call__, lines 40-48: the request is sent.
ToolRequest ==
    /\ mcp.pc = "idle"
    /\ \E tool \in Tools :
          \E event \in IF tool = "query_conversations" THEN QueryEvents
                       ELSE EvaluationEvents :
             mcp' = [mcp EXCEPT !.tool = tool, !.event = event,
                                !.pc = "server"]
    /\ UNCHANGED <<storeVars, raceVars, run, hyb>>

\* lambda_handler of the tool's server.
LambdaHandler ==
    /\ mcp.pc = "server"
    /\ mcp' = [mcp EXCEPT
                 !.response = IF mcp.tool = "query_conversations"
                              THEN QueryHandler(mcp.event)
                              ELSE EvaluationHandler(mcp.event),
                 !.pc = "wire"]
    /\ UNCHANGED <<storeVars, raceVars, run, hyb>>

\* MCPTool.__call__, lines 55-56: urlopen and response.read().
UrlOpen ==
    /\ mcp.pc = "wire"
    /\ \E http \in {Proxied(mcp.response), Enveloped(mcp.response)}
                      \cup ForeignAnswers :
          mcp' = [mcp EXCEPT !.http = http, !.pc = "client"]
    /\ UNCHANGED <<storeVars, raceVars, run, hyb>>

\* MCPTool.__call__, lines 56-71: the result returned to the caller.
McpReturn ==
    /\ mcp.pc = "client"
    /\ mcp' = [mcp EXCEPT !.result = McpCall(mcp.http), !.pc = "returned"]
    /\ UNCHANGED <<storeVars, raceVars, run, hyb>>

NextTool ==
    \/ ToolRequest
    \/ LambdaHandler
    \/ UrlOpen
    \/ McpReturn

SpecTool == InitTool /\ [][NextTool]_vars

----------------------------------------------------------------------------
(* Goal texts: sequences of characters *)
\* "Review the last 5 conversations"
GoalReview5 ==
    <<"R", "e", "v", "i", "e", "w", " ", "t", "h", "e", " ", "l", "a", "s",
      "t", " ", "5", " ", "c", "o", "n", "v", "e", "r", "s", "a", "t", "i",
      "o", "n", "s">>

\* "Check the last 3 chats and update prompt if scores are below 3.5"
GoalCheck3 ==
    <<"C", "h", "e", "c", "k", " ", "t", "h", "e", " ", "l", "a", "s", "t",
      " ", "3", " ", "c", "h", "a", "t", "s", " ", "a", "n", "d", " ", "u",
      "p", "d", "a", "t", "e", " ", "p", "r", "o", "m", "p", "t", " ", "i",
      "f", " ", "s", "c", "o", "r", "e", "s", " ", "a", "r", "e", " ", "b",
      "e", "l", "o", "w", " ", "3", ".", "5">>

\* "Create a PR to update the system prompt"
GoalCreateAPR ==
    <<"C", "r", "e", "a", "t", "e", " ", "a", " ", "P", "R", " ", "t", "o",
      " ", "u", "p", "d", "a", "t", "e", " ", "t", "h", "e", " ", "s", "y",
      "s", "t", "e", "m", " ", "p", "r", "o", "m", "p", "t">>

\* "Create PR"
GoalCreatePR ==
    <<"C", "r", "e", "a", "t", "e", " ", "P", "R">>

\* "Show 2 chats"
GoalShow2 ==
    <<"S", "h", "o", "w", " ", "2", " ", "c", "h", "a", "t", "s">>

\* "Evaluate 2 chats if any score is below 4"
GoalAnyBelow ==
    <<"E", "v", "a", "l", "u", "a", "t", "e", " ", "2", " ", "c", "h", "a",
      "t", "s", " ", "i", "f", " ", "a", "n", "y", " ", "s", "c", "o", "r",
      "e", " ", "i", "s", " ", "b", "e", "l", "o", "w", " ", "4">>

\* "Hello"
GoalHello ==
    <<"H", "e", "l", "l", "o">>

\* "List 12  chats and 4 conversations"
GoalList12 ==
    <<"L", "i", "s", "t", " ", "1", "2", " ", " ", "c", "h", "a", "t", "s",
      " ", "a", "n", "d", " ", "4", " ", "c", "o", "n", "v", "e", "r", "s",
      "a", "t", "i", "o", "n", "s">>

\* "Show 3 of 10 CONVERSATIONS"
GoalShowOf ==
    <<"S", "h", "o", "w", " ", "3", " ", "o", "f", " ", "1", "0", " ", "C",
      "O", "N", "V", "E", "R", "S", "A", "T", "I", "O", "N", "S">>

\* "Review 0 chats"
GoalReview0 ==
    <<"R", "e", "v", "i", "e", "w", " ", "0", " ", "c", "h", "a", "t", "s">>

\* "List chats and create PR"
GoalListCreatePR ==
    <<"L", "i", "s", "t", " ", "c", "h", "a", "t", "s", " ", "a", "n", "d",
      " ", "c", "r", "e", "a", "t", "e", " ", "P", "R">>

\* "Review 2 chats and improve the prompt"
GoalReviewImprove ==
    <<"R", "e", "v", "i", "e", "w", " ", "2", " ", "c", "h", "a", "t", "s",
      " ", "a", "n", "d", " ", "i", "m", "p", "r", "o", "v", "e", " ", "t",
      "h", "e", " ", "p", "r", "o", "m", "p", "t">>

\* "Evaluate 2 chats if score is below 4"
GoalIfBelow ==
    <<"E", "v", "a", "l", "u", "a", "t", "e", " ", "2", " ", "c", "h", "a",
      "t", "s", " ", "i", "f", " ", "s", "c", "o", "r", "e", " ", "i", "s",
      " ", "b", "e", "l", "o", "w", " ", "4">>

Goals ==
    {GoalReview5, GoalCheck3, GoalCreateAPR, GoalCreatePR, GoalShow2,
     GoalAnyBelow, GoalHello, GoalList12, GoalShowOf, GoalReview0,
     GoalListCreatePR, GoalReviewImprove, GoalIfBelow}

\* The literals of execute_goal's substring tests and regular expressions.
kw_review == <<"r", "e", "v", "i", "e", "w">>
kw_evaluate == <<"e", "v", "a", "l", "u", "a", "t", "e">>
kw_check == <<"c", "h", "e", "c", "k">>
kw_get == <<"g", "e", "t">>
kw_show == <<"s", "h", "o", "w">>
kw_list == <<"l", "i", "s", "t">>
kw_display == <<"d", "i", "s", "p", "l", "a", "y">>
kw_update_prompt == <<"u", "p", "d", "a", "t", "e", " ", "p", "r", "o", "m", "p", "t">>
kw_create_pr == <<"c", "r", "e", "a", "t", "e", " ", "p", "r">>
kw_pull_request == <<"p", "u", "l", "l", " ", "r", "e", "q", "u", "e", "s", "t">>
kw_chat == <<"c", "h", "a", "t">>
kw_conversation == <<"c", "o", "n", "v", "e", "r", "s", "a", "t", "i", "o", "n">>
kw_if == <<"i", "f">>
kw_any == <<"a", "n", "y">>
kw_average == <<"a", "v", "e", "r", "a", "g", "e">>
kw_avg == <<"a", "v", "g">>
kw_score == <<"s", "c", "o", "r", "e">>
kw_is == <<"i", "s">>
kw_below == <<"b", "e", "l", "o", "w">>
kw_lt == <<"<">>
kw_dot == <<".">>

\* The literals of _classify_intent that execute_goal does not use.
kw_update == <<"u", "p", "d", "a", "t", "e">>
kw_improve == <<"i", "m", "p", "r", "o", "v", "e">>
kw_scores == <<"s", "c", "o", "r", "e", "s">>
kw_are == <<"a", "r", "e">>
kw_under == <<"u", "n", "d", "e", "r">>
kw_less_than == <<"l", "e", "s", "s", " ", "t", "h", "a", "n">>

UpperToLower ==
    ("A" :> "a") @@ ("B" :> "b") @@ ("C" :> "c") @@ ("D" :> "d") @@
    ("E" :> "e") @@ ("F" :> "f") @@ ("G" :> "g") @@ ("H" :> "h") @@
    ("I" :> "i") @@ ("J" :> "j") @@ ("K" :> "k") @@ ("L" :> "l") @@
    ("M" :> "m") @@ ("N" :> "n") @@ ("O" :> "o") @@ ("P" :> "p") @@
    ("Q" :> "q") @@ ("R" :> "r") @@ ("S" :> "s") @@ ("T" :> "t") @@
    ("U" :> "u") @@ ("V" :> "v") @@ ("W" :> "w") @@ ("X" :> "x") @@
    ("Y" :> "y") @@ ("Z" :> "z")

\* str.lower()
Lower(text) ==
    [k \in 1..Len(text) |->
        IF text[k] \in DOMAIN UpperToLower THEN UpperToLower[text[k]]
        ELSE text[k]]

DigitVal ==
    ("0" :> 0) @@ ("1" :> 1) @@ ("2" :> 2) @@ ("3" :> 3) @@ ("4" :> 4) @@
    ("5" :> 5) @@ ("6" :> 6) @@ ("7" :> 7) @@ ("8" :> 8) @@ ("9" :> 9)

IsDigit(c) == c \in DOMAIN DigitVal
IsSpace(c) == c \in {" ", "\t", "\n"}

\* text[at ..] starts with word
StartsAt(text, at, word) ==
    /\ at >= 1
    /\ at + Len(word) - 1 <= Len(text)
    /\ \A k \in 1..Len(word) : text[at + k - 1] = word[k]

\* word in text
Contains(text, word) ==
    \E at \in 1..Len(text) : StartsAt(text, at, word)

\* Regular expressions are run on sets of positions: a position is the index
\* of the next character to read, and a piece maps the positions it may
\* start at to the positions it may end at.
Lit(text, P, word) ==
    {at + Len(word) : at \in {q \in P : StartsAt(text, q, word)}}

\* \s+
Spaces(text, P) ==
    {q \in 2..Len(text) + 1 :
        \E at \in P : at < q /\ \A k \in at..q - 1 : IsSpace(text[k])}

\* \d+
Digits(text, P) ==
    {q \in 2..Len(text) + 1 :
        \E at \in P : at < q /\ \A k \in at..q - 1 : IsDigit(text[k])}

Max(S) == CHOOSE x \in S : \A y \in S : y <= x
Min(S) == CHOOSE x \in S : \A y \in S : x <= y

RECURSIVE ToInt(_, _, _)
\* int() of the digits text[from .. to - 1]
ToInt(text, from, to) ==
    IF to <= from THEN 0
    ELSE 10 * ToInt(text, from, to - 1) + DigitVal[text[to - 1]]

RECURSIVE Pow10(_)
Pow10(k) == IF k = 0 THEN 1 ELSE 10 * Pow10(k - 1)

\* r'(\d+)\s+(?:chat|conversation)' from one start: the ends of group 1 with
\* which the whole pattern matches.
CountEnds(text, at) ==
    {e \in Digits(text, {at}) :
        LET sp == Spaces(text, {e})
        IN  Lit(text, sp, kw_chat) \cup Lit(text, sp, kw_conversation) # {}}

CountStarts(text) == {at \in 1..Len(text) : CountEnds(text, at) # {}}

\* Mutant of ExtractLimit: the last match is taken.
ExtractLimit_LastMatch(goal_lower) ==
    IF CountStarts(goal_lower) = {} THEN 5
    ELSE LET at == Max(CountStarts(goal_lower))
         IN  ToInt(goal_lower, at, Max(CountEnds(goal_lower, at)))

\* execute_goal, lines 146-147: re.search takes the leftmost match.
ExtractLimit(goal_lower) ==
    IF CountStarts(goal_lower) = {} THEN 5
    ELSE LET at == Min(CountStarts(goal_lower))
         IN  ToInt(goal_lower, at, Max(CountEnds(goal_lower, at)))

\* r'if\s+(?:any|average|avg)?\s+score\s+(?:is\s+)?(?:below|<)\s+' from one
\* start: the positions at which group 1 may begin.
ThresholdGroupStarts(text, at) ==
    LET p1 == Spaces(text, Lit(text, {at}, kw_if))
        p2 == p1 \cup Lit(text, p1, kw_any) \cup Lit(text, p1, kw_average)
                 \cup Lit(text, p1, kw_avg)
        p3 == Spaces(text, Lit(text, Spaces(text, p2), kw_score))
        p4 == p3 \cup Spaces(text, Lit(text, p3, kw_is))
        p5 == Lit(text, p4, kw_below) \cup Lit(text, p4, kw_lt)
    IN  {g \in Spaces(text, p5) : Digits(text, {g}) # {}}

ThresholdStarts(text) ==
    {at \in 1..Len(text) : ThresholdGroupStarts(text, at) # {}}

\* A float read from decimal digits: num / den, den a power of ten.
NoThreshold == [num |-> 0, den |-> 0]

\* Group 1, (\d+(?:\.\d+)?), is greedy: all the digits, then a dot and all
\* the digits after it when there is one.
ReadFloat(text, g) ==
    LET e  == Max(Digits(text, {g}))
        fr == Digits(text, Lit(text, {e}, kw_dot))
    IN  IF fr = {} THEN [num |-> ToInt(text, g, e), den |-> 1]
        ELSE LET f == Max(fr)
             IN  [num |-> ToInt(text, g, e) * Pow10(f - e - 1)
                            + ToInt(text, e + 1, f),
                  den |-> Pow10(f - e - 1)]

\* execute_goal, lines 307-308.
ExtractCustomThreshold(goal_lower) ==
    IF ThresholdStarts(goal_lower) = {} THEN NoThreshold
    ELSE LET at == Min(ThresholdStarts(goal_lower))
         IN  ReadFloat(goal_lower, Min(ThresholdGroupStarts(goal_lower, at)))

\* execute_goal, lines 155-162.
IsDirectPr(goal_lower) ==
    /\ Contains(goal_lower, kw_update_prompt)
          \/ Contains(goal_lower, kw_create_pr)
    /\ ~Contains(goal_lower, kw_review)
    /\ ~Contains(goal_lower, kw_evaluate)
    /\ ~Contains(goal_lower, kw_get)
    /\ ~Contains(goal_lower, kw_show)
    /\ ~Contains(goal_lower, kw_list)

\* execute_goal, line 227.
WantsDisplay(goal_lower) ==
    \/ Contains(goal_lower, kw_get)
    \/ Contains(goal_lower, kw_show)
    \/ Contains(goal_lower, kw_list)
    \/ Contains(goal_lower, kw_display)

\* Mutant of WantsEvaluation: a goal that asks to display is evaluated too.
WantsEvaluation_OrDisplay(goal_lower) ==
    \/ Contains(goal_lower, kw_review)
    \/ Contains(goal_lower, kw_evaluate)
    \/ Contains(goal_lower, kw_check)
    \/ WantsDisplay(goal_lower)

\* execute_goal, line 243.
WantsEvaluation(goal_lower) ==
    \/ Contains(goal_lower, kw_review)
    \/ Contains(goal_lower, kw_evaluate)
    \/ Contains(goal_lower, kw_check)

RECURSIVE Sum(_)
Sum(scores) ==
    IF scores = <<>> THEN 0 ELSE Head(scores) + Sum(Tail(scores))

\* a < b for two floats
Less(a, b) == a.num * b.den < b.num * a.den

\* Mutant of AvgScore: the sum is divided with //.
AvgScore_Floor(scores) ==
    [num |-> Sum(scores) \div Len(scores), den |-> 1]

\* execute_goal, line 283: sum(scores) / len(scores), scores not empty.
AvgScore(scores) ==
    [num |-> Sum(scores), den |-> Len(scores)]

\* Mutant of ShouldCreatePr: the default threshold is 4.5.
ShouldCreatePr_Below45(goal_lower, scores) ==
    LET custom_threshold == ExtractCustomThreshold(goal_lower)
    IN  IF /\ custom_threshold.num # 0
           /\ \E k \in 1..Len(scores) :
                 scores[k] * custom_threshold.den < custom_threshold.num
        THEN TRUE
        ELSE \/ Less(AvgScore(scores), [num |-> 9, den |-> 2])
             \/ Contains(goal_lower, kw_update_prompt)
             \/ Contains(goal_lower, kw_create_pr)
             \/ Contains(goal_lower, kw_pull_request)

\* execute_goal, lines 311-322.
ShouldCreatePr(goal_lower, scores) ==
    LET custom_threshold == ExtractCustomThreshold(goal_lower)
    IN  IF /\ custom_threshold.num # 0
           /\ \E k \in 1..Len(scores) :
                 scores[k] * custom_threshold.den < custom_threshold.num
        THEN TRUE
        ELSE \/ Less(AvgScore(scores), [num |-> 7, den |-> 2])
             \/ Contains(goal_lower, kw_update_prompt)
             \/ Contains(goal_lower, kw_create_pr)
             \/ Contains(goal_lower, kw_pull_request)

\* f"{avg_score:.1f}" in tenths: the nearest tenth, an exact tie to the even
\* one.
FormatAvg(scores) ==
    LET q == (10 * Sum(scores)) \div Len(scores)
        r == (10 * Sum(scores)) % Len(scores)
    IN  IF 2 * r > Len(scores) THEN q + 1
        ELSE IF 2 * r < Len(scores) THEN q
        ELSE IF q % 2 = 0 THEN q ELSE q + 1

\* len([s for s in scores if s < 3])
LowCount(scores) == Cardinality({k \in 1..Len(scores) : scores[k] < 3})

\* Mutant of PromptText: the prompt of the agent wins over the override.
PromptText_AgentFirst(override, custom_prompt) ==
    IF custom_prompt # "" THEN custom_prompt
    ELSE IF override # "" THEN override
    ELSE "default"

\* execute_goal, line 152 and lines 170-185 (332-347).
PromptText(override, custom_prompt) ==
    IF override # "" THEN override
    ELSE IF custom_prompt # "" THEN custom_prompt
    ELSE "default"

----------------------------------------------------------------------------
(* SpecRun: PlannerAgent.execute_goal, one step per tool call *)

Overrides     == {"", "override"}
CustomPrompts == {"", "agent"}
ScoreRange    == 1..5

\* A line of `results`, and the record of one MCPTool call.
Line(k, a, b) == [k |-> k, a |-> a, b |-> b]

\* ok and score are what the tool answered (success, score).
ToolCall(tool, ok, n, score, prompt_text, reason, avg, low) ==
    [tool |-> tool, ok |-> ok, n |-> n, score |-> score,
     prompt_text |-> prompt_text, reason |-> reason, avg |-> avg, low |-> low]

RECURSIVE DisplayLines(_, _)
\* execute_goal, lines 230-237: four lines per conversation.
DisplayLines(from, n) ==
    IF from > n THEN <<>>
    ELSE <<Line("conv", from, 0), Line("Q", from, 0), Line("A", from, 0),
           Line("", 0, 0)>> \o DisplayLines(from + 1, n)

RECURSIVE ScoreLines_Reversed(_)
\* Mutant of ScoreLines: the evaluations are listed last first.
ScoreLines_Reversed(evaluations) ==
    IF evaluations = <<>> THEN <<>>
    ELSE ScoreLines_Reversed(Tail(evaluations))
         \o <<Line("score", Head(evaluations).id, Head(evaluations).score),
              Line("comment", Head(evaluations).id, 0)>>

RECURSIVE ScoreLines(_)
\* execute_goal, lines 295-299.
ScoreLines(evaluations) ==
    IF evaluations = <<>> THEN <<>>
    ELSE <<Line("score", Head(evaluations).id, Head(evaluations).score),
           Line("comment", Head(evaluations).id, 0)>>
         \o ScoreLines(Tail(evaluations))

Finish(r, ret) == [r EXCEPT !.pc = "done", !.ret = ret]

\* execute_goal, lines 281-372: what follows the evaluation loop, up to the
\* call of the github tool.
AfterEvaluation(r) ==
    IF r.scores = <<>> THEN Finish(r, "transcript")
    ELSE LET avged == [r EXCEPT !.avg_score = AvgScore(r.scores)]
             shown == r.results
                        \o <<Line("header", 0, 0),
                             Line("average", FormatAvg(r.scores), 0)>>
                        \o ScoreLines(r.evaluations)
         IN  IF ShouldCreatePr(Lower(r.goal), r.scores)
             THEN [avged EXCEPT !.results = shown, !.pc = "create_pr"]
             ELSE Finish([avged EXCEPT !.results =
                                      Append(shown, Line("good", 0, 0))],
                         "transcript")

\* Mutant of AfterQuery: the success field of the answer is not tested.
AfterQuery_IgnoresFailure(r, success, n) ==
    LET got == [r EXCEPT
                  !.n = IF success THEN n ELSE 0,
                  !.results =
                     <<Line("retrieved", IF success THEN n ELSE 0, 0)>>
                     \o (IF WantsDisplay(Lower(r.goal)) /\ success
                         THEN DisplayLines(1, n) ELSE <<>>)]
    IN  IF ~WantsEvaluation(Lower(r.goal)) THEN Finish(got, "transcript")
        ELSE IF got.n = 0 THEN AfterEvaluation(got)
        ELSE [got EXCEPT !.pc = "eval", !.i = 1]

\* execute_goal, lines 211-253: what follows the answer of the query tool, up
\* to the first call of the evaluation tool.
AfterQuery(r, success, n) ==
    LET got == [r EXCEPT
                  !.n = n,
                  !.results =
                     <<Line("retrieved", n, 0)>>
                     \o (IF WantsDisplay(Lower(r.goal))
                         THEN DisplayLines(1, n) ELSE <<>>)]
    IN  IF ~success THEN Finish(r, "fetch_error")
        ELSE IF ~WantsEvaluation(Lower(r.goal)) THEN Finish(got, "transcript")
        ELSE IF n = 0 THEN AfterEvaluation(got)
        ELSE [got EXCEPT !.pc = "eval", !.i = 1]

\* The approval store a run may find: empty, one pending request, or one
\* request that the CLI has approved.
PendingStore  == create_request(<<>>, Plain, RaceId, 1)
ApprovedStore == CliDecide(PendingStore, RaceId, "approved", NoNotes, 2)
RunStores     == {<<>>, PendingStore, ApprovedStore}

InitRun ==
    /\ store \in RunStores
    /\ created = DOMAIN store
    /\ clock   = IF store = ApprovedStore THEN 2
                 ELSE Cardinality(DOMAIN store)
    /\ last    = Call("init", 0, TRUE, {}, 0)
    /\ RaceIdle
    /\ \/ hyb = HybOff
          /\ \E custom_prompt \in CustomPrompts : run = RunIdle(custom_prompt)
       \/ hyb = HybIdle /\ run = RunOff
    /\ mcp = McpOff

\* execute_goal, lines 142-164: the goal is parsed and the branch chosen.
ExecuteGoal ==
    \E goal \in Goals, override \in Overrides :
        /\ run.pc = "idle"
        /\ run' = [run EXCEPT
                     !.goal = goal,
                     !.override = override,
                     !.limit = ExtractLimit(Lower(goal)),
                     !.pc = IF IsDirectPr(Lower(goal)) THEN "direct_pr"
                            ELSE "query"]
        /\ UNCHANGED <<storeVars, raceVars, hyb, mcp>>

\* execute_goal, lines 209-243: query_tool(limit=limit) and its answer.
QueryConversations ==
    /\ run.pc = "query"
    /\ \E success \in BOOLEAN, n \in 0..MaxConvs :
          LET called == [run EXCEPT !.calls =
                            Append(@, ToolCall("query_conversations", success,
                                               run.limit, 0, "", "", 0, 0))]
          IN  run' = AfterQuery(called, success, n)
    /\ UNCHANGED <<storeVars, raceVars, hyb, mcp>>

\* Mutant of EvaluateResponse: a failed evaluation ends the run.
EvaluateResponse_AbortsOnFailure ==
    /\ run.pc = "eval"
    /\ \E success \in BOOLEAN, score \in ScoreRange :
          LET called == [run EXCEPT !.calls =
                            Append(@, ToolCall("evaluate_response", success,
                                               run.i,
                                               IF success THEN score ELSE 0,
                                               "", "", 0, 0))]
              got    == [called EXCEPT
                           !.scores = Append(@, score),
                           !.evaluations =
                              Append(@, [id |-> run.i, score |-> score])]
          IN  run' = IF ~success THEN Finish(called, "eval_error")
                     ELSE IF run.i = run.n THEN AfterEvaluation(got)
                     ELSE [got EXCEPT !.i = run.i + 1]
    /\ UNCHANGED <<storeVars, raceVars, hyb, mcp>>

\* execute_goal, lines 253-279: eval_tool for conversation i; after the last
\* one, lines 281-372.
EvaluateResponse ==
    /\ run.pc = "eval"
    /\ \E success \in BOOLEAN, score \in ScoreRange :
          LET called == [run EXCEPT !.calls =
                            Append(@, ToolCall("evaluate_response", success,
                                               run.i,
                                               IF success THEN score ELSE 0,
                                               "", "", 0, 0))]
              got    == IF success
                        THEN [called EXCEPT
                                !.scores = Append(@, score),
                                !.evaluations =
                                   Append(@, [id |-> run.i,
                                              score |-> score])]
                        ELSE called
          IN  run' = IF run.i = run.n THEN AfterEvaluation(got)
                     ELSE [got EXCEPT !.i = run.i + 1]
    /\ UNCHANGED <<storeVars, raceVars, hyb, mcp>>

\* execute_goal, lines 189-203 (direct) and 349-365 (after evaluation):
\* github_tool(prompt_text=..., reason=...) and its answer.
SubmitPromptUpdate ==
    /\ run.pc \in {"direct_pr", "create_pr"}
    /\ \E success \in BOOLEAN :
          LET direct == run.pc = "direct_pr"
              called == [run EXCEPT !.calls =
                            Append(@, ToolCall(
                               "submit_prompt_update", success, 0, 0,
                               PromptText(run.override, run.custom_prompt),
                               IF direct THEN "manual" ELSE "evaluation",
                               IF direct THEN 0 ELSE FormatAvg(run.scores),
                               IF direct THEN 0 ELSE LowCount(run.scores)))]
              line   == Line(IF success THEN "pr_created" ELSE "pr_error",
                             0, 0)
          IN  run' = IF direct THEN Finish(called, line.k)
                     ELSE Finish([called EXCEPT !.results = Append(@, line)],
                                 "transcript")
    /\ UNCHANGED <<storeVars, raceVars, hyb, mcp>>

----------------------------------------------------------------------------
(* The hybrid example: AutonomousAgent.process_goal and the simulated      *)
(* review and update workflows, one step per workflow node                 *)

\* r'(?:score|scores)\s+(?:is|are)\s+(?:below|under|less than)\s+' from one
\* start: the positions at which group 1 may begin.
ScoreGroupStarts(text, at) ==
    LET p1 == Spaces(text, Lit(text, {at}, kw_score)
                              \cup Lit(text, {at}, kw_scores))
        p2 == Spaces(text, Lit(text, p1, kw_is) \cup Lit(text, p1, kw_are))
        p3 == Lit(text, p2, kw_below) \cup Lit(text, p2, kw_under)
                 \cup Lit(text, p2, kw_less_than)
    IN  {g \in Spaces(text, p3) : Digits(text, {g}) # {}}

ScoreStarts(text) == {at \in 1..Len(text) : ScoreGroupStarts(text, at) # {}}

\* _classify_intent, lines 56-61.
ExtractScoreThreshold(goal_lower) ==
    IF ScoreStarts(goal_lower) = {} THEN [num |-> 3, den |-> 1]
    ELSE LET at == Min(ScoreStarts(goal_lower))
         IN  ReadFloat(goal_lower, Min(ScoreGroupStarts(goal_lower, at)))

\* _classify_intent, lines 63-72.
ClassifyIntent(goal_lower) ==
    IF \/ Contains(goal_lower, kw_review)
       \/ Contains(goal_lower, kw_evaluate)
       \/ Contains(goal_lower, kw_check)
    THEN IF \/ Contains(goal_lower, kw_update)
            \/ Contains(goal_lower, kw_improve)
            \/ Contains(goal_lower, kw_create_pr)
         THEN "review_and_update"
         ELSE "review_only"
    ELSE IF \/ Contains(goal_lower, kw_update_prompt)
            \/ Contains(goal_lower, kw_create_pr)
         THEN "direct_update"
         ELSE "unknown"

\* evaluate_responses, line 143: 3 + (hash(conv['id']) % 3) - 1, the hash of a
\* string being any integer.
HashScores == {3 + h - 1 : h \in 0..2}

\* evaluate_responses, line 154.
AverageScore(scores) ==
    IF Len(scores) > 0 THEN [num |-> Sum(scores), den |-> Len(scores)]
    ELSE [num |-> 0, den |-> 1]

\* check_update_needed, lines 163-172.
NeedsUpdate(h) ==
    Less(h.average_score, h.score_threshold) \/ h.update_required

\* process_goal and _orchestrate_workflow, lines 30-91.
ProcessGoal ==
    \E goal \in Goals :
        LET intent == ClassifyIntent(Lower(goal))
            params == [hyb EXCEPT
                         !.goal = goal,
                         !.intent = intent,
                         !.conversation_count = ExtractLimit(Lower(goal)),
                         !.score_threshold =
                            ExtractScoreThreshold(Lower(goal))]
        IN  /\ hyb.pc = "idle"
            /\ hyb' = CASE intent = "review_only" ->
                             [params EXCEPT !.update_required = FALSE,
                                            !.pc = "query"]
                        [] intent = "review_and_update" ->
                             [params EXCEPT !.update_required = TRUE,
                                            !.pc = "query"]
                        [] intent = "direct_update" ->
                             [params EXCEPT !.pc = "prepare"]
                        [] OTHER ->
                             [params EXCEPT !.pc = "done", !.status = "error"]
            /\ UNCHANGED <<storeVars, raceVars, run, mcp>>

\* query_conversations, lines 117-132: exactly conversation_count
\* conversations.
HybQueryConversations ==
    /\ hyb.pc = "query"
    /\ hyb' = [hyb EXCEPT !.conversations = hyb.conversation_count,
                          !.pc = "evaluate"]
    /\ UNCHANGED <<storeVars, raceVars, run, mcp>>

\* evaluate_responses, lines 141-152: one turn of the loop.
HybEvaluateResponse ==
    /\ hyb.pc = "evaluate"
    /\ Len(hyb.scores) < hyb.conversations
    /\ \E score \in HashScores : hyb' = [hyb EXCEPT !.scores = Append(@, score)]
    /\ UNCHANGED <<storeVars, raceVars, run, mcp>>

\* evaluate_responses, lines 154-160: after the loop.
HybAverage ==
    /\ hyb.pc = "evaluate"
    /\ Len(hyb.scores) = hyb.conversations
    /\ hyb' = [hyb EXCEPT !.average_score = AverageScore(hyb.scores),
                          !.pc = "check"]
    /\ UNCHANGED <<storeVars, raceVars, run, mcp>>

\* SimulatedWorkflow.invoke, lines 325-344: the decision of the review
\* workflow.
CheckUpdateNeeded ==
    /\ hyb.pc = "check"
    /\ hyb' = IF NeedsUpdate(hyb) THEN [hyb EXCEPT !.pc = "prepare"]
              ELSE [hyb EXCEPT !.pc = "done", !.status = "completed"]
    /\ UNCHANGED <<storeVars, raceVars, run, mcp>>

\* prepare_update, lines 175-199.
PrepareUpdate ==
    /\ hyb.pc = "prepare"
    /\ hyb' = [hyb EXCEPT !.approval_required = TRUE, !.pc = "approval"]
    /\ UNCHANGED <<storeVars, raceVars, run, mcp>>

\* create_approval_request, lines 211-225, and the return of invoke: an id is
\* generated and printed, no entry is made in the approval store.
CreateApprovalRequest ==
    /\ hyb.pc = "approval"
    /\ hyb' = [hyb EXCEPT !.approval_id = TRUE, !.status = "waiting_approval",
                          !.pc = "paused"]
    /\ UNCHANGED <<storeVars, raceVars, run, mcp>>

\* run_demo, lines 401-417: the demo sets approval_status itself and calls
\* create_pr, which makes up a URL.
RunDemoResume ==
    /\ hyb.pc = "paused"
    /\ hyb' = [hyb EXCEPT !.approval_status = "approved", !.pr_url = TRUE,
                          !.pc = "done"]
    /\ UNCHANGED <<storeVars, raceVars, run, mcp>>

NextRun ==
    \/ ExecuteGoal
    \/ QueryConversations
    \/ EvaluateResponse
    \/ SubmitPromptUpdate
    \/ ProcessGoal
    \/ HybQueryConversations
    \/ HybEvaluateResponse
    \/ HybAverage
    \/ CheckUpdateNeeded
    \/ PrepareUpdate
    \/ CreateApprovalRequest
    \/ RunDemoResume

SpecRun == InitRun /\ [][NextRun]_vars

Submits == {k \in DOMAIN run.calls :
               run.calls[k].tool = "submit_prompt_update"}

\* C1: submit_prompt_update is invoked only on behalf of an approval request
\* whose stored status is approved; a run that decides a mutation is needed
\* never invokes it itself.
C1_SubmitOnlyWhenApproved ==
    \A k \in Submits :
        \E i \in DOMAIN store :
            /\ store[i].status = "approved"
            /\ store[i].prompt_text = run.calls[k].prompt_text

----------------------------------------------------------------------------
(* Properties of the approval store, checked under Spec *)

\* The step just taken is a call of `op` (every call rewrites `last`).
Step(op) == last'.op = op /\ last' # last

\* C2: update_request on a request whose current status is not pending fails
\* and never overwrites the stored status (the status changes at most once,
\* only pending -> approved or pending -> rejected).
C2_UpdateOnlyFromPending ==
    [][\A i \in DOMAIN store :
          (Step("update_request") /\ last'.id = i
              /\ store[i].status # "pending")
          => (~last'.ok /\ store'[i].status = store[i].status)]_vars

\* C3: a request is processed only when its status is approved:
\* mark_as_processed on a request whose status is pending or rejected fails
\* and leaves processed as it was.
C3_MarkOnlyWhenApproved ==
    [][\A i \in DOMAIN store :
          (Step("mark_as_processed") /\ last'.id = i
              /\ store[i].status # "approved")
          => (~last'.ok /\ store'[i].processed = store[i].processed)]_vars

\* C4: mark_as_processed called a second time on the same approved request,
\* right after a first call that succeeded, fails and does not change the
\* stored record.
C4_SecondMarkFails ==
    [][(/\ last.op = "mark_as_processed" /\ last.ok
        /\ Step("mark_as_processed") /\ last'.id = last.id
        /\ store[last.id].status = "approved")
       => (~last'.ok /\ store' = store)]_vars

\* C7: create_request returns an id that no record in the store has, stores
\* the new record under it with status pending, and leaves every existing
\* record unchanged.
C7_CreateFreshId ==
    [][Step("create_request")
       => /\ last'.id \notin DOMAIN store
          /\ store'[last'.id].status = "pending"
          /\ \A i \in DOMAIN store : store'[i] = store[i]]_vars

\* C8: every request that was ever created is still in the store, and its id
\* field is the id it was created with.
C8_NeverDeletedIdKept ==
    \A i \in created : Exists(store, i) /\ store[i].id = i

\* C8 witness: a created request that update_request and mark_as_processed
\* have both rewritten.
C8_Witness ==
    \E i \in created :
        /\ Exists(store, i)
        /\ store[i].updated_at # NoTime
        /\ store[i].processed_at # NoTime

\* C9: for an id that was never created, get_request returns None,
\* update_request and mark_as_processed return failure, and none of them
\* creates a record or changes an existing one.
C9_UnknownId ==
    [][(/\ \/ Step("get_request")
           \/ Step("update_request")
           \/ Step("mark_as_processed")
        /\ last'.id \notin created)
       => (~last'.ok /\ last'.out = {} /\ store' = store)]_vars

\* C9 witness: update_request has failed on an id that was never created
\* while another request is stored.
C9_Witness ==
    /\ last.op = "update_request"
    /\ last.id \notin created
    /\ ~last.ok
    /\ created # {}

\* C10: get_pending_requests returns exactly the stored records whose status
\* is pending; get_approved_requests returns exactly those whose status is
\* approved and that are not processed.
C10_Listings ==
    /\ last.op = "get_pending_requests"
       => /\ \A r \in last.out : \E i \in DOMAIN store : store[i] = r
          /\ \A i \in DOMAIN store :
                store[i] \in last.out <=> store[i].status = "pending"
    /\ last.op = "get_approved_requests"
       => /\ \A r \in last.out : \E i \in DOMAIN store : store[i] = r
          /\ \A i \in DOMAIN store :
                store[i] \in last.out
                   <=> (store[i].status = "approved" /\ ~store[i].processed)

\* C10 witness: get_approved_requests has returned a request while the store
\* also holds a rejected or an already processed one.
C10_Witness ==
    /\ last.op = "get_approved_requests"
    /\ last.out # {}
    /\ \E i \in DOMAIN store :
          store[i].status = "rejected" \/ store[i].processed

\* C11: the CLI's approve and reject, run one at a time, succeed only on a
\* request whose stored status is pending; on an unknown id or on a request
\* that is already approved or rejected they return failure and leave the
\* store unchanged.
C11_CliOnlyPending ==
    [][(Step("approve_request") \/ Step("reject_request"))
       => LET i == last'.id
              pending == Exists(store, i) /\ store[i].status = "pending"
          IN  /\ last'.ok => pending
              /\ ~pending => (~last'.ok /\ store' = store)]_vars

\* C11 witness: reject_request has failed on a request that is approved.
C11_Witness ==
    /\ last.op = "reject_request"
    /\ ~last.ok
    /\ Exists(store, last.id)
    /\ store[last.id].status = "approved"

\* C35: update_request changes only status, updated_at and, when notes are
\* given, notes of the record it addresses; mark_as_processed changes only
\* processed and processed_at.  Every other key of that record (id, action,
\* the payload, created_at, ...) and every other record stay as they were,
\* and a call of update_request without notes does not erase earlier notes.
Changed(op) ==
    IF op = "update_request" THEN {"status", "updated_at", "notes"}
    ELSE {"processed", "processed_at"}

C35_Frame ==
    [][\A op \in {"update_request", "mark_as_processed"} :
          Step(op)
          => /\ DOMAIN store' = DOMAIN store
             /\ \A i \in DOMAIN store :
                   IF i # last'.id THEN store'[i] = store[i]
                   ELSE /\ \A f \in DOMAIN Plain \ Changed(op) :
                              store'[i][f] = store[i][f]
                        /\ store'[i].notes # store[i].notes
                              => store'[i].notes # NoNotes]_vars

\* C35 witness: update_request has just rewritten a request that was created
\* with a payload of its own, has notes and was marked processed before.
C35_Witness ==
    /\ last.op = "update_request"
    /\ last.ok
    /\ store[last.id].updated_at = last.at
    /\ store[last.id].processed_at \notin {NoTime, last.at}
    /\ store[last.id].notes # NoNotes
    /\ store[last.id].prompt_text # Plain.prompt_text

\* C36: whatever dictionary create_request is given, one that already has
\* id, status or processed keys included, the record it stores has the
\* generated id, status pending and is not processed: get_pending_requests
\* lists it and get_approved_requests does not.
C36_CreatedIsFresh ==
    [][Step("create_request")
       => LET r == store'[last'.id]
          IN  /\ r.id = last'.id
              /\ r.status = "pending"
              /\ ~r.processed
              /\ r \in get_pending_requests(store')
              /\ r \notin get_approved_requests(store')]_vars

----------------------------------------------------------------------------
(* Properties of the orchestrator run, checked under SpecRun *)

CallsOf(tool) == {k \in DOMAIN run.calls : run.calls[k].tool = tool}

\* The run has decided that a mutation is required (should_create_pr, or the
\* direct branch) and has not acted on it yet.
Decided == run.pc \in {"direct_pr", "create_pr"}

\* C12: a run that has decided that a mutation is required creates exactly
\* one record in the approval store, pending, with the proposed prompt text,
\* and ends there returning waiting_approval, without calling a tool.
C12_DecisionCreatesRequest ==
    [][(Decided /\ run' # run)
       => /\ run'.pc = "done"
          /\ run'.ret = "waiting_approval"
          /\ run'.calls = run.calls
          /\ \E i \in DOMAIN store' :
                /\ DOMAIN store' \ DOMAIN store = {i}
                /\ store'[i].status = "pending"
                /\ store'[i].prompt_text =
                      PromptText(run.override, run.custom_prompt)]_vars

\* C13: a request that was approved before an orchestrator run is executed by
\* that run: when the run is over and every tool call of it has succeeded,
\* the request is processed and submit_prompt_update has been called with its
\* stored payload.
C13_ApprovedIsExecuted ==
    (run.pc = "done" /\ \A k \in DOMAIN run.calls : run.calls[k].ok)
    => \A i \in DOMAIN store :
          store[i].status = "approved"
          => /\ store[i].processed
             /\ \E k \in Submits :
                   run.calls[k].prompt_text = store[i].prompt_text

\* C14: a submit_prompt_update call that failed was made for an approved
\* request that is still approved and not processed, so that
\* get_approved_requests selects it again.
C14_FailedSubmitIsRetried ==
    \A k \in Submits :
        ~run.calls[k].ok
        => \E r \in get_approved_requests(store) :
              r.prompt_text = run.calls[k].prompt_text

\* C16: for "Check the last 3 chats and update prompt if scores are below
\* 3.5" the run queries 3 conversations, evaluates them and ends with a
\* pending approval request, without calling submit_prompt_update.
C16_ScenarioB ==
    run.goal = GoalCheck3
    => /\ Submits = {}
       /\ run.pc = "done"
          => /\ \E k \in CallsOf("query_conversations") : run.calls[k].n = 3
             /\ CallsOf("evaluate_response") # {}
             /\ \E i \in DOMAIN store : store[i].status = "pending"

\* C17: for "Create a PR to update the system prompt" the run calls neither
\* query_conversations nor evaluate_response and ends with a pending approval
\* request.
C17_ScenarioC ==
    run.goal = GoalCreateAPR
    => /\ CallsOf("query_conversations") = {}
       /\ CallsOf("evaluate_response") = {}
       /\ run.pc = "done"
          => \E i \in DOMAIN store : store[i].status = "pending"

\* C18: when query_conversations answers with a failure the run is over with
\* the fetch error: that query is the only tool call of the run (no retry, no
\* evaluation, no submit) and no store call has been made.
C18_QueryFailureEndsRun ==
    \A k \in CallsOf("query_conversations") :
        ~run.calls[k].ok
        => /\ run.pc = "done"
           /\ run.ret = "fetch_error"
           /\ Len(run.calls) = 1
           /\ last.op = "init"

\* C18 witness: a run for a goal that asks for an evaluation has ended on a
\* failed query.
C18_Witness ==
    /\ run.pc = "done"
    /\ run.ret = "fetch_error"
    /\ WantsEvaluation(Lower(run.goal))
    /\ ~run.calls[1].ok

\* The evaluate_response calls of the run all answered with this score.
AllScored(score) ==
    \A k \in CallsOf("evaluate_response") :
        run.calls[k].ok /\ run.calls[k].score = score

\* C15: Scenario A.  For "Review the last 5 conversations" with every
\* evaluation answering score 4, no approval request is created and
\* submit_prompt_update is never called, and the run ends with the verdict
\* that no action is needed: PlannerAgent closes the transcript with the
\* "scores are good" line, the review workflow returns completed.
C15_ScenarioA ==
    /\ (run.goal = GoalReview5 /\ AllScored(4))
       => /\ run.pc # "create_pr"
          /\ Submits = {}
          /\ last.op = "init"
          /\ (run.pc = "done" /\ run.scores # <<>>)
             => /\ run.ret = "transcript"
                /\ run.results[Len(run.results)] = Line("good", 0, 0)
    /\ (/\ hyb.goal = GoalReview5
        /\ \A k \in DOMAIN hyb.scores : hyb.scores[k] = 4)
       => /\ hyb.pc \notin {"prepare", "approval", "paused"}
          /\ ~hyb.approval_id
          /\ ~hyb.pr_url
          /\ last.op = "init"
          /\ hyb.pc = "done" => hyb.status = "completed"

C15_Witness ==
    /\ run.goal = GoalReview5
    /\ run.pc = "done"
    /\ run.n = MaxConvs
    /\ Len(run.scores) = run.n
    /\ AllScored(4)

\* The digits that start at `from` end before this position.
DigitsEnd(goal, from) ==
    Min({to \in from..Len(goal) + 1 :
            to = Len(goal) + 1 \/ ~IsDigit(goal[to])})

\* A number starts at `at`, and white space and then the word chat or
\* conversation, in any case, follow it.
CountPhraseAt(goal, at) ==
    /\ IsDigit(goal[at])
    /\ at = 1 \/ ~IsDigit(goal[at - 1])
    /\ \E w \in DigitsEnd(goal, at) + 1..Len(goal) :
          /\ \A k \in DigitsEnd(goal, at)..w - 1 : IsSpace(goal[k])
          /\ \/ StartsAt(Lower(goal), w, kw_chat)
             \/ StartsAt(Lower(goal), w, kw_conversation)

\* The count a goal asks for: the number of its first "N chat" or
\* "N conversation", 5 when it has none.
FirstCount(goal) ==
    LET phrases == {at \in 1..Len(goal) : CountPhraseAt(goal, at)}
    IN  IF phrases = {} THEN 5
        ELSE ToInt(goal, Min(phrases), DigitsEnd(goal, Min(phrases)))

\* C19: the conversation count extracted from a goal is the N of its first
\* "N chat" / "N conversation" phrase (in any case), 5 when the goal has no
\* such phrase, and it is the limit given to query_conversations (in the
\* hybrid example, the number of conversations the query node produces).
C19_CountIsLimit ==
    /\ run.pc \notin {"off", "idle"} => run.limit = FirstCount(run.goal)
    /\ \A k \in CallsOf("query_conversations") :
          run.calls[k].n = FirstCount(run.goal)
    /\ hyb.pc \notin {"off", "idle"}
       => hyb.conversation_count = FirstCount(hyb.goal)
    /\ hyb.pc \in {"evaluate", "check"}
       => hyb.conversations = FirstCount(hyb.goal)

C19_Witness ==
    /\ run.goal = GoalList12
    /\ CallsOf("query_conversations") # {}
    /\ \A k \in CallsOf("query_conversations") : run.calls[k].n = 12

RECURSIVE SuccessfulScores(_)
\* The scores of the evaluate_response calls that answered with success, in
\* the order of the calls.
SuccessfulScores(calls) ==
    IF calls = <<>> THEN <<>>
    ELSE (IF Head(calls).tool = "evaluate_response" /\ Head(calls).ok
          THEN <<Head(calls).score>> ELSE <<>>)
         \o SuccessfulScores(Tail(calls))

IntentOf(goal) ==
    LET text    == Lower(goal)
        inspect == \/ Contains(text, kw_review)
                   \/ Contains(text, kw_evaluate)
                   \/ Contains(text, kw_check)
        mutate  == \/ Contains(text, kw_update)
                   \/ Contains(text, kw_improve)
                   \/ Contains(text, kw_create_pr)
        phrase  == \/ Contains(text, kw_update_prompt)
                   \/ Contains(text, kw_create_pr)
        reads   == \/ Contains(text, kw_review)
                   \/ Contains(text, kw_evaluate)
                   \/ Contains(text, kw_get)
                   \/ Contains(text, kw_show)
                   \/ Contains(text, kw_list)
    IN  IF inspect /\ mutate THEN "InspectAndMutate"
        ELSE IF inspect THEN "Inspect"
        ELSE IF phrase /\ ~reads THEN "DirectMutate"
        ELSE "Unknown"

\* The run took the direct branch of execute_goal (lines 164-203).
TookDirect ==
    \/ run.pc = "direct_pr"
    \/ /\ run.calls # <<>>
       /\ run.calls[1].tool = "submit_prompt_update"
       /\ run.calls[1].reason = "manual"

\* The name the hybrid example gives each intent.
HybIntentName ==
    [InspectAndMutate |-> "review_and_update", Inspect |-> "review_only",
     DirectMutate |-> "direct_update", Unknown |-> "unknown"]

\* C21: a goal is handled according to the intent the priority rule gives
\* it: PlannerAgent takes its direct branch exactly for DirectMutate goals
\* and evaluates exactly for Inspect and InspectAndMutate goals, and the
\* hybrid example's intent is the rule's; a goal with 'check' and 'update
\* prompt' is never handled as a direct mutation.
C21_Classification ==
    /\ run.pc \notin {"off", "idle"}
       => /\ TookDirect <=> IntentOf(run.goal) = "DirectMutate"
          /\ CallsOf("evaluate_response") # {}
             => IntentOf(run.goal) \in {"Inspect", "InspectAndMutate"}
    /\ hyb.pc \notin {"off", "idle"}
       => hyb.intent = HybIntentName[IntentOf(hyb.goal)]

\* The run has decided to create a PR after its evaluation (lines 324-365).
MutationDecided ==
    \/ run.pc = "create_pr"
    \/ \E k \in Submits : run.calls[k].reason = "evaluation"

\* The review workflow has decided that an update is needed.
HybMutationDecided ==
    hyb.pc \in {"prepare", "approval", "paused"} \/ hyb.approval_required

\* The goal is a pure read without condition: an Inspect goal with no "if"
\* clause and no request for a pull request.
PlainInspect(goal) ==
    /\ IntentOf(goal) = "Inspect"
    /\ ~Contains(Lower(goal), kw_if)
    /\ ~Contains(Lower(goal), kw_pull_request)

\* C22: for an Inspect goal that asks for no mutation and sets no per-item
\* threshold, a mutation is decided exactly when the average of the scores
\* is strictly below the threshold stated in the goal, 3.0 when it states
\* none.
C22_AggregateThreshold ==
    /\ (/\ PlainInspect(run.goal)
        /\ run.pc \in {"create_pr", "done"}
        /\ run.scores # <<>>)
       => (MutationDecided
             <=> Less(AvgScore(run.scores),
                      ExtractScoreThreshold(Lower(run.goal))))
    /\ (/\ PlainInspect(hyb.goal)
        /\ hyb.pc \in {"prepare", "approval", "paused", "done"})
       => (HybMutationDecided
             <=> Less(hyb.average_score, hyb.score_threshold))

\* C23: an InspectAndMutate goal leads to a mutation whatever the scores
\* are: a PlannerAgent run that has collected scores calls the github tool,
\* and the review workflow prepares the update.
C23_InspectAndMutate ==
    /\ (/\ IntentOf(run.goal) = "InspectAndMutate"
        /\ run.pc = "done"
        /\ run.scores # <<>>)
       => Submits # {}
    /\ (/\ IntentOf(hyb.goal) = "InspectAndMutate"
        /\ hyb.pc = "done")
       => hyb.approval_required

\* "if score is below N" with white space between the words: the positions
\* at which N may begin.
ItemClauseStarts(text) ==
    LET p1 == Spaces(text, Lit(text, 1..Len(text), kw_if))
        p2 == Spaces(text, Lit(text, p1, kw_score))
        p3 == Spaces(text, Lit(text, p2, kw_is))
        p4 == Spaces(text, Lit(text, p3, kw_below))
    IN  {g \in p4 : Digits(text, {g}) # {}}

\* C24: when the goal holds an "if score is below N" clause and at least one
\* collected score is below N, the run creates the PR, whatever the average.
C24_ItemThreshold ==
    LET text == Lower(run.goal)
    IN  (/\ run.pc = "done"
         /\ ItemClauseStarts(text) # {}
         /\ \E k \in DOMAIN run.scores :
               Less([num |-> run.scores[k], den |-> 1],
                    ReadFloat(text, Min(ItemClauseStarts(text)))))
        => Submits # {}

\* The lines with which execute_goal reports its decision (lines 356-372).
DecisionLines == {"pr_created", "pr_error", "good"}

\* C25: a review run that ends with no score at all still ends with a
\* decision, taken on an average of 0: a mutation unless the goal is a pure
\* read (Inspect), and a decision line in the transcript in either case; the
\* review workflow takes 0 as the average and decides the same way.
C25_NoScores ==
    /\ (/\ run.pc = "done"
        /\ run.ret = "transcript"
        /\ IntentOf(run.goal) \in {"Inspect", "InspectAndMutate"}
        /\ run.scores = <<>>)
       => /\ IntentOf(run.goal) = "InspectAndMutate" => Submits # {}
          /\ \E k \in DOMAIN run.results : run.results[k].k \in DecisionLines
    /\ (/\ hyb.pc = "done"
        /\ hyb.intent \in {"review_only", "review_and_update"}
        /\ hyb.scores = <<>>)
       => /\ hyb.average_score.num = 0
          /\ hyb.approval_required <=> hyb.intent = "review_and_update"

ConversationLines == {"conv", "Q", "A", "score", "comment"}

\* C27: every tool failure of a run shows in what the run returns: a failed
\* query as the returned error message, a failed submit as an error line (or
\* the returned error message of the direct branch), a failed evaluation as a
\* line about its conversation that is neither its display nor its score.
C27_FailuresVisible ==
    run.pc = "done"
    => \A k \in DOMAIN run.calls :
          ~run.calls[k].ok
          => CASE run.calls[k].tool = "query_conversations" ->
                     run.ret = "fetch_error"
               [] run.calls[k].tool = "submit_prompt_update" ->
                     \/ run.ret = "pr_error"
                     \/ \E j \in DOMAIN run.results :
                           run.results[j].k = "pr_error"
               [] OTHER ->
                     \E j \in DOMAIN run.results :
                        /\ run.results[j].a = run.calls[k].n
                        /\ run.results[j].k \notin ConversationLines
                        /\ run.results[j].k # "retrieved"

IsScoreLine(line) == line.k = "score"

RECURSIVE SuccessfulItems(_)
\* The score lines of the evaluate_response calls that answered with
\* success, in the order of the calls.
SuccessfulItems(calls) ==
    IF calls = <<>> THEN <<>>
    ELSE (IF Head(calls).tool = "evaluate_response" /\ Head(calls).ok
          THEN <<Line("score", Head(calls).n, Head(calls).score)>>
          ELSE <<>>)
         \o SuccessfulItems(Tail(calls))

\* C28: a review run calls query_conversations exactly once, first, and then
\* evaluate_response once per returned conversation in the order returned:
\* the k-th evaluation is that of conversation k.  The per-item list of the
\* transcript holds the successful evaluations in that order, none moved or
\* repeated.
C28_OrderKept ==
    CallsOf("evaluate_response") # {}
    => /\ CallsOf("query_conversations") = {1}
       /\ \A k \in CallsOf("evaluate_response") : run.calls[k].n = k - 1
       /\ Cardinality(CallsOf("evaluate_response")) <= run.n
       /\ run.pc \in {"create_pr", "done"}
          => /\ Cardinality(CallsOf("evaluate_response")) = run.n
             /\ SelectSeq(run.results, IsScoreLine)
                   = SuccessfulItems(run.calls)

C28_Witness ==
    /\ run.pc = "done"
    /\ run.n = MaxConvs
    /\ Len(run.calls) = MaxConvs + 1
    /\ ~run.calls[3].ok
    /\ Len(SelectSeq(run.results, IsScoreLine)) = MaxConvs - 1

\* C37: a goal that has none of the words review, evaluate, check and none
\* of the phrases "update prompt", "create pr" causes no evaluate_response
\* call, no approval request and no submit_prompt_update call, whatever the
\* tools answer.
UnknownGoal(goal) ==
    LET text == Lower(goal)
    IN  /\ ~Contains(text, kw_review)
        /\ ~Contains(text, kw_evaluate)
        /\ ~Contains(text, kw_check)
        /\ ~Contains(text, kw_update_prompt)
        /\ ~Contains(text, kw_create_pr)

C37_UnknownGoalInert ==
    [][(UnknownGoal(run'.goal) /\ UnknownGoal(hyb'.goal))
       => /\ store' = store
          /\ CallsOf("evaluate_response")' = {}
          /\ Submits' = {}
          /\ hyb'.scores = <<>>
          /\ ~hyb'.approval_required
          /\ ~hyb'.approval_id
          /\ ~hyb'.pr_url]_vars

\* C37 witness: a run for such a goal has ended after a query that returned
\* conversations.
C37_Witness ==
    /\ run.pc = "done"
    /\ run.goal # <<>>
    /\ UnknownGoal(run.goal)
    /\ run.n > 0
    /\ \E k \in CallsOf("query_conversations") : run.calls[k].ok

\* C38: a run calls submit_prompt_update at most once, whatever the goal and
\* the answers of the tools, and the prompt text it sends is the override of
\* the call when one is given, else the custom prompt of the agent, else the
\* fixed default.
C38_OneSubmission ==
    /\ Cardinality(Submits) <= 1
    /\ \A k \in Submits :
          run.calls[k].prompt_text =
             (IF run.override # "" THEN run.override
              ELSE IF run.custom_prompt # "" THEN run.custom_prompt
              ELSE "default")

\* C38 witness: a run of an agent with a custom prompt, called with an
\* override, has evaluated conversations and submitted.
C38_Witness ==
    /\ run.pc = "done"
    /\ run.override # ""
    /\ run.custom_prompt # ""
    /\ CallsOf("evaluate_response") # {}
    /\ \E k \in Submits : run.calls[k].prompt_text = run.override

----------------------------------------------------------------------------
(* Properties of a tool call, checked under SpecTool *)

\* C29: a tool call never raises and always returns a dictionary with the
\* key 'success': false, with an error string, when urlopen raised or when
\* what was read is not the dictionary of an answer, true with the payload
\* otherwise.
C29_GatewayNormalises ==
    mcp.pc = "returned"
    => /\ mcp.result.type = "dict"
       /\ mcp.result.success \in {"true", "false"}
       /\ mcp.result.success = "false" => mcp.result.error
       /\ mcp.http.raised => mcp.result.success = "false"

\* C30: an endpoint answers with status 200 exactly when the body says
\* success = true; every other answer has a status other than 200 and a body
\* with success = false and an error string, the answers to an invalid limit
\* and to a missing question or answer included; and a call of the
\* evaluation model that failed is not answered as a success.
C30_EndpointAnswers ==
    mcp.pc \in {"wire", "client", "returned"}
    => /\ mcp.response.statusCode = 200 <=> mcp.response.success = "true"
       /\ mcp.response.statusCode # 200
          => (mcp.response.success = "false" /\ mcp.response.error)
       /\ (mcp.tool = "evaluate_response" /\ mcp.event.bedrock = "raises")
          => mcp.response.statusCode # 200

\* The query handler has answered an event whose arguments it could read.
QueryAnswered ==
    /\ mcp.tool = "query_conversations"
    /\ mcp.pc \in {"wire", "client", "returned"}
    /\ mcp.event.shape \notin {"body_garbage", "body_list", "body_null"}

\* The limit of the event as the handler finds it: absent when the event
\* has no arguments or no limit.
GivenLimitKind ==
    IF mcp.event.shape = "empty" THEN "absent" ELSE mcp.event.limit_kind

\* C31: the query endpoint accepts a limit only when it is an integer in
\* 1..10, 5 standing for an absent one.  An accepted limit L is answered
\* with the L most recent conversations in stored order and their number as
\* count; any other limit is answered with a client error and no
\* conversation.
C31_QueryLimit ==
    QueryAnswered
    => LET L == IF GivenLimitKind = "absent" THEN 5 ELSE mcp.event.limit
           accepted == \/ GivenLimitKind = "absent"
                       \/ GivenLimitKind = "int" /\ L >= 1 /\ L <= 10
       IN  IF accepted
           THEN /\ mcp.response.statusCode = 200
                /\ mcp.response.conversations
                      = [k \in 1..L |-> CONVERSATIONS[Len(CONVERSATIONS) - L + k]]
                /\ mcp.response.count = Len(mcp.response.conversations)
           ELSE /\ mcp.response.statusCode >= 400
                /\ mcp.response.statusCode < 500
                /\ mcp.response.conversations = <<>>

\* C32: the evaluation endpoint answers a request without a non-empty
\* question or without a non-empty answer with a client error, and the model
\* is not called for it; every successful answer carries a whole score from
\* 1 to 5, whatever the model returned (a score outside the range, text
\* without JSON, a failed call).
EvaluationAnswered ==
    /\ mcp.tool = "evaluate_response"
    /\ mcp.pc \in {"wire", "client", "returned"}
    /\ mcp.event.shape \notin {"body_garbage", "body_list", "body_null"}

Outcomes == {"error", "no_action", "waiting_approval"}

PlannerOutcome ==
    IF run.ret = "fetch_error" THEN "error"
    ELSE IF Submits = {} THEN "no_action"
    ELSE IF \E k \in Submits : ~run.calls[k].ok THEN "error"
    ELSE "pr_created"

HybridOutcome ==
    IF hyb.status = "completed" THEN "no_action" ELSE hyb.status

C33_TerminalOutcome ==
    /\ run.pc # "off" => Len(run.calls) <= run.n + 2
    /\ run.pc = "done" => PlannerOutcome \in Outcomes
    /\ hyb.pc \in {"paused", "done"} => HybridOutcome \in Outcomes
    /\ hyb.status = "waiting_approval" => hyb.pc \in {"paused", "done"}

----------------------------------------------------------------------------
(* Properties of the store under concurrent callers, checked under SpecRace *)

\* C34: however the steps of the CLI's approve and reject (read, check,
\* update_request's read and write) interleave with the read and the write
\* of mark_as_processed on the same request, no write overwrites a
\* concurrent one: once mark_as_processed has returned True the stored
\* request is processed, and get_approved_requests does not list it again.
C34_ProcessedStays ==
    (res["marker"] = "true" /\ store[RaceId] # EMPTY)
    => /\ store[RaceId].processed
       /\ store[RaceId] \notin get_approved_requests(store)

============================================================================
